---- MODULE Spec2Model ----
(***************************************************************************)
(* Model of src/src/art.ts: the wire generator, the intersection test, the *)
(* admission timer, the reveal (animation) timer, the render frame and the *)
(* two reset paths (window resize, key press 'r').                         *)
(*                                                                         *)
(* Time.  The code reads the clock only in the growing branch of the       *)
(* animation tick, only as now - pieceLerpBeginTime, and only compares     *)
(* that with 1000 / WIRE_LERP_SPEED or scales it when it is not above.     *)
(* Each setup therefore carries `elapsed`: the integer milliseconds from   *)
(* its pieceLerpBeginTime to the latest read of the clock, saturated one   *)
(* above the per-segment duration.  The time that passed since the         *)
(* previous read is an input of every read.  lerp is kept in thousandths   *)
(* (ONE = 1.0).  SpecClock also lets time pass between the ticks, which    *)
(* matters for when a wire is pushed relative to the baseline.             *)
(***************************************************************************)
EXTENDS Integers, Sequences, FiniteSets, TLC

VARIABLES
    canvas,                 \* $canvas.offsetWidth, $canvas.offsetHeight
    world,                  \* this.world
    setups,                 \* the closures of every call of Art.setup, oldest first
    unMount,                \* the constructor's `unMount`: index into setups
    dirty,                  \* this.dirty
    renewGraphicsContext,   \* this.renewGraphicsContext
    rendered,               \* the latest render frame called this.render
    history,                \* the wires admitted into this.world, oldest first
    waited,                 \* milliseconds from the push of the queued wire to the
                            \* finalizing of its first node (to now, before it)
    call                    \* a single call of a pure function (SpecGen, SpecIntersect)

vars == <<canvas, world, setups, unMount, dirty, renewGraphicsContext, rendered, history, waited, call>>

---------------------------------------------------------------------------
(* Program constants *)

CELL_SIZE == 24

WIRE_LERP_SPEED == 50

MILLIS == 1000

ONE == 1000

WIRE_BASE_LENGTH == 3

WIRE_LENGTH_SPREAD == 12

MAX_FAILED_TRIES == 200

LERP_DURATION == MILLIS \div WIRE_LERP_SPEED

Directions == {"down", "down-left", "down-right"}

---------------------------------------------------------------------------
(* Bounds of the model *)

\* between two reads of the clock 1 .. ClockTicks periods of ClockGrain
\* milliseconds pass
ClockGrain == 5

ClockTicks == 4

ClockSteps == {k * ClockGrain : k \in 1 .. ClockTicks}

\* at most this many calls of Art.setup, the constructor's included, while no
\* key is pressed (Spec), and when keys are pressed too (SpecKeys)
MaxSetups == 2

MaxKeySetups == 3

\* canvas sizes in CSS pixels the host reports: a grid of 2 x 1 cells, and of
\* 1 x 1 cell under SpecKeys
CanvasSizes == {<<40, 24>>}

KeyCanvasSizes == {<<24, 24>>}

\* The outcomes of Math.random() the model draws in one call of generateWire:
\* lens = the values of floor(Math.random() * 12), dirs = randomDirection(),
\* turnsAt = the loop indices at which Math.random() < 0.35 may come out true,
\* maxTurns = how many of them do in one call.
\* the loop index at which a wire may turn under SpecTurns
TurnIndex == 2

\* the number of turns of one wire under SpecGen
MaxTurns == 2

LongestDraw == WIRE_LENGTH_SPREAD - 1

LoopIndices == 0 .. (WIRE_BASE_LENGTH + LongestDraw - 1)

StraightDraws == [lens |-> {0, LongestDraw}, dirs |-> Directions, turnsAt |-> {}, maxTurns |-> 0]

TurnDraws == [lens |-> {0}, dirs |-> Directions, turnsAt |-> {TurnIndex}, maxTurns |-> 1]

KeyDraws == [lens |-> {0}, dirs |-> {"down"}, turnsAt |-> {}, maxTurns |-> 0]

GenDraws == [lens |-> 0 .. LongestDraw, dirs |-> Directions, turnsAt |-> LoopIndices, maxTurns |-> MaxTurns]

---------------------------------------------------------------------------
(* Pure functions *)

Min(a, b) == IF a < b THEN a ELSE b

CeilDiv(a, b) == (a + b - 1) \div b

\* `${x | 0},${y | 0}`: | 0 is the identity on the 32-bit integers the
\* coordinates stay in; the key is the pair
toLatticePoint(x, y) == <<x, y>>

nextPoint(p, direction) ==
    IF direction = "down" THEN <<p[1], p[2] + 1>>
    ELSE IF direction = "down-left" THEN <<p[1] - 1, p[2] + 1>>
    ELSE IF direction = "down-right" THEN <<p[1] + 1, p[2] + 1>>
    ELSE <<"invalid">>

checkPoint(w, p) == toLatticePoint(p[1], p[2]) \in DOMAIN w.wirePieces

\* nodeIntersects probing the node's own cell only
nodeIntersectsOwnCell(w, node) == checkPoint(w, node.point)

\* nodeIntersects with the down-left branch probing the right-hand cell
nodeIntersectsRightOnly(w, node) ==
    LET x == node.point[1]
        y == node.point[2]
    IN  IF node.direction = "down"
            THEN checkPoint(w, <<x, y>>) \/ checkPoint(w, <<x, y + 1>>)
        ELSE IF node.direction = "down-left"
            THEN checkPoint(w, <<x, y>>) \/ checkPoint(w, <<x + 1, y>>)
        ELSE IF node.direction = "down-right"
            THEN checkPoint(w, <<x, y>>) \/ checkPoint(w, <<x + 1, y>>)
        ELSE FALSE

nodeIntersects(w, node) ==
    LET x == node.point[1]
        y == node.point[2]
    IN  IF node.direction = "down"
            THEN checkPoint(w, <<x, y>>) \/ checkPoint(w, <<x, y + 1>>)
        ELSE IF node.direction = "down-left"
            THEN checkPoint(w, <<x, y>>) \/ checkPoint(w, <<x - 1, y>>)
        ELSE IF node.direction = "down-right"
            THEN checkPoint(w, <<x, y>>) \/ checkPoint(w, <<x + 1, y>>)
        ELSE FALSE

\* wireIntersects finding every wire free
wireIntersectsNever(w, wire) == FALSE

RECURSIVE someFrom(_, _, _)
someFrom(w, wire, i) ==
    IF i > Len(wire) THEN FALSE
    ELSE IF nodeIntersects(w, wire[i]) THEN TRUE
    ELSE someFrom(w, wire, i + 1)

wireIntersects(w, wire) == someFrom(w, wire, 1)

\* the outcomes of the random source one call of generateWire consumes:
\* len = floor(Math.random() * 12), x, y = randomPoint(), dir = randomDirection(),
\* changeAt = the loop indices i whose Math.random() < 0.35,
\* rightAt = the loop indices whose randomChoice picks 'down-right'
\* wireLengthOf counting the first node too
wireLengthPlusFirst(len) == WIRE_BASE_LENGTH + len + 1

\* const wireLength = 3 + Math.floor(Math.random() * 12)
wireLengthOf(len) == WIRE_BASE_LENGTH + len

TurnPatterns(draws, len) ==
    UNION {{<<c, r>> : r \in SUBSET c} :
        c \in {t \in SUBSET (draws.turnsAt \cap (0 .. (wireLengthOf(len) - 1))) :
                  Cardinality(t) <= draws.maxTurns}}

\* Math.floor(Math.random() * w)
RandomXs(w) == 0 .. (w - 1)

\* Math.floor(Math.pow(Math.random(), 2) * h * 0.5)
RandomYs(h) == 0 .. (CeilDiv(h, 2) - 1)

RandomSources(dims, draws) ==
    UNION {{[len |-> l, x |-> x, y |-> y, dir |-> d, changeAt |-> t[1], rightAt |-> t[2]] :
                x \in RandomXs(dims[1]), y \in RandomYs(dims[2]),
                d \in draws.dirs, t \in TurnPatterns(draws, l)} :
            l \in draws.lens}

\* changeDirection going from one diagonal to the other
changeDirectionAcross(dir, i, rnd) ==
    IF i \in rnd.changeAt
        THEN IF dir = "down"
                THEN (IF i \in rnd.rightAt THEN "down-right" ELSE "down-left")
                ELSE (IF dir = "down-left" THEN "down-right" ELSE "down-left")
        ELSE dir

changeDirection(dir, i, rnd) ==
    IF i \in rnd.changeAt
        THEN IF dir = "down"
                THEN (IF i \in rnd.rightAt THEN "down-right" ELSE "down-left")
                ELSE "down"
        ELSE dir

\* loopContinues with <= for <
loopContinuesInclusive(i, wireLength) == i <= wireLength

\* for (let i = 0; i < wireLength; i++)
loopContinues(i, wireLength) == i < wireLength

\* extendWire stepping in the direction chosen for the new node
RECURSIVE extendWireTurnFirst(_, _, _, _, _)
extendWireTurnFirst(wire, dir, i, wireLength, rnd) ==
    IF loopContinues(i, wireLength)
        THEN LET d == changeDirection(dir, i, rnd)
                 p == nextPoint(wire[Len(wire)].point, d)
             IN  extendWireTurnFirst(Append(wire, [point |-> p, direction |-> d]), d, i + 1, wireLength, rnd)
        ELSE wire

RECURSIVE extendWire(_, _, _, _, _)
extendWire(wire, dir, i, wireLength, rnd) ==
    IF loopContinues(i, wireLength)
        THEN LET p == nextPoint(wire[Len(wire)].point, dir)
                 d == changeDirection(dir, i, rnd)
             IN  extendWire(Append(wire, [point |-> p, direction |-> d]), d, i + 1, wireLength, rnd)
        ELSE wire

generateWire(w, rnd) ==
    LET wireLength == wireLengthOf(rnd.len)
        first == [point |-> <<rnd.x, rnd.y>>, direction |-> rnd.dir]
    IN  extendWire(<<first>>, first.direction, 0, wireLength, rnd)

---------------------------------------------------------------------------
(* State *)

Dimensions(size) == <<CeilDiv(size[1], CELL_SIZE), CeilDiv(size[2], CELL_SIZE)>>

EmptyPieces == [k \in {} |-> 0]

NewWorld(size) == [dimensions |-> Dimensions(size), wirePieces |-> EmptyPieces, wiresQueue |-> <<>>]

NewSetup == [failedTries |-> 0, wireGeneratorTimer |-> TRUE, wireQueueTimer |-> TRUE, elapsed |-> 0]

NoCall == [fn |-> "none"]

\* unMount(): both intervals cleared; nothing reads the closure's failedTries and
\* pieceLerpBeginTime any more
Unmounted == [wireGeneratorTimer |-> FALSE, wireQueueTimer |-> FALSE]

\* new Art($canvas): setup, then the first renderFn()
Constructed(sizes) ==
    /\ canvas \in sizes
    /\ world = NewWorld(canvas)
    /\ setups = <<NewSetup>>
    /\ unMount = 1
    /\ dirty = FALSE
    /\ renewGraphicsContext = FALSE
    /\ rendered = TRUE
    /\ history = <<>>
    /\ waited = 0

Init ==
    /\ Constructed(CanvasSizes)
    /\ call = NoCall

---------------------------------------------------------------------------
(* The admission timer: setInterval(..., 10) of setup i *)

\* budgetExhausted with >= for >
budgetExhaustedAtThreshold(failedTries) == failedTries >= MAX_FAILED_TRIES

budgetExhausted(failedTries) == failedTries > MAX_FAILED_TRIES

\* queueBusy finding the queue empty always
queueBusyNever(w) == FALSE

\* if (this.world.wiresQueue.length > 0)
queueBusy(w) == Len(w.wiresQueue) > 0

wireGeneratorTick(i, draws) ==
    /\ setups[i].wireGeneratorTimer
    /\ IF queueBusy(world)
         THEN UNCHANGED <<world, setups, history, waited>>
       ELSE IF budgetExhausted(setups[i].failedTries)
         THEN /\ setups' = [setups EXCEPT ![i].wireGeneratorTimer = FALSE]
              /\ UNCHANGED <<world, history, waited>>
       ELSE \E rnd \in RandomSources(world.dimensions, draws) :
              LET wire == generateWire(world, rnd)
              IN  IF ~wireIntersects(world, wire)
                    THEN /\ setups' = [setups EXCEPT ![i].failedTries = 0]
                         /\ world' = [world EXCEPT !.wiresQueue = Append(@, [wire |-> wire, cursor |-> 0])]
                         /\ history' = Append(history, [wire |-> wire, cursor |-> 0])
                         /\ waited' = 0
                    ELSE /\ setups' = [setups EXCEPT ![i].failedTries = @ + 1]
                         /\ UNCHANGED <<world, history, waited>>
    /\ UNCHANGED <<canvas, unMount, dirty, renewGraphicsContext, rendered, call>>

---------------------------------------------------------------------------
(* The animation timer: setInterval(..., 1000 / 60) of setup i *)

\* segmentElapsed never finding the segment's time over
segmentElapsedNever(elapsed) == FALSE

segmentElapsed(elapsed) == elapsed > LERP_DURATION

\* growing with the cursor compared against one node instead of the wire's length
growingFirstNodeOnly(entry) == entry.cursor < 1

growing(entry) == entry.cursor < Len(entry.wire)

\* finalTip testing the cursor as it was before wireInterp.cursor++
finalTipBeforeIncrement(cursor, length) ==
    IF cursor = 0 THEN "begin"
    ELSE IF cursor = length - 1 THEN "end"
    ELSE "false"

finalTip(cursor, length) ==
    IF cursor = 1 THEN "begin"
    ELSE IF cursor = length THEN "end"
    ELSE "false"

growingTip(cursor) == IF cursor = 0 THEN "begin-end" ELSE "end"

\* setPiece replacing the store by the one entry
setPieceAlone(pieces, key, piece) == [k \in {key} |-> piece]

setPiece(pieces, key, piece) ==
    [k \in DOMAIN pieces \cup {key} |-> IF k = key THEN piece ELSE pieces[k]]

\* the entry of history that is the head of the queue
headIndex == Len(history) - Len(world.wiresQueue) + 1

\* new Date().getTime(): d milliseconds after the previous read
advance(s, d) ==
    IF s.wireQueueTimer THEN [s EXCEPT !.elapsed = Min(@ + d, LERP_DURATION + 1)] ELSE s

readClock(d) == [j \in 1 .. Len(setups) |-> advance(setups[j], d)]

\* the time from the push of a wire to the finalizing of its first node
waiting(d) ==
    IF Len(history) > 0 /\ history[Len(history)].cursor = 0
        THEN Min(waited + d, LERP_DURATION + 1)
        ELSE waited

wireQueueTick(i) ==
    /\ setups[i].wireQueueTimer
    /\ IF Len(world.wiresQueue) > 0
         THEN LET wireInterp == world.wiresQueue[1]
              IN  IF growing(wireInterp)
                    THEN \E d \in ClockSteps :
                         LET currentNode == wireInterp.wire[wireInterp.cursor + 1]
                             key == toLatticePoint(currentNode.point[1], currentNode.point[2])
                             now == readClock(d)
                         IN  IF segmentElapsed(now[i].elapsed)
                               THEN LET cursor == wireInterp.cursor + 1
                                        piece == [direction |-> currentNode.direction,
                                                  lerp |-> ONE,
                                                  tipPosition |-> finalTip(cursor, Len(wireInterp.wire))]
                                    IN  /\ world' = [world EXCEPT
                                                !.wiresQueue[1].cursor = cursor,
                                                !.wirePieces = setPiece(@, key, piece)]
                                        /\ setups' = [now EXCEPT ![i].elapsed = 0]
                                        /\ history' = [history EXCEPT ![headIndex].cursor = cursor]
                                        /\ waited' = waiting(d)
                                        /\ dirty' = TRUE
                               ELSE LET lerp == now[i].elapsed * WIRE_LERP_SPEED
                                        piece == [point |-> currentNode.point,
                                                  direction |-> currentNode.direction,
                                                  tipPosition |-> growingTip(wireInterp.cursor),
                                                  lerp |-> lerp]
                                    IN  /\ world' = [world EXCEPT !.wirePieces = setPiece(@, key, piece)]
                                        /\ setups' = now
                                        /\ waited' = waiting(d)
                                        /\ dirty' = TRUE
                                        /\ UNCHANGED history
                    ELSE /\ world' = [world EXCEPT !.wiresQueue = Tail(@)]
                         /\ waited' = 0
                         /\ UNCHANGED <<setups, history, dirty>>
         ELSE UNCHANGED <<world, setups, history, waited, dirty>>
    /\ UNCHANGED <<canvas, unMount, renewGraphicsContext, rendered, call>>

---------------------------------------------------------------------------
(* requestAnimationFrame(renderFn) *)

\* redraws with the dirty flag left out of the test
redrawsOnRenewOnly == renewGraphicsContext

\* if (this.dirty || this.renewGraphicsContext)
redraws == dirty \/ renewGraphicsContext

renderFn ==
    /\ rendered' = redraws
    /\ dirty' = FALSE
    /\ renewGraphicsContext' = FALSE
    /\ UNCHANGED <<canvas, world, setups, unMount, history, waited, call>>

---------------------------------------------------------------------------
(* Resets *)

\* window 'resize': renew the context, unMount(), unMount = this.setup($canvas)
resize(sizes, limit) ==
    /\ Len(setups) < limit
    /\ \E size \in sizes :
        /\ canvas' = size
        /\ world' = NewWorld(size)
    /\ renewGraphicsContext' = TRUE
    /\ setups' = Append([setups EXCEPT ![unMount] = Unmounted], NewSetup)
    /\ unMount' = Len(setups) + 1
    /\ history' = <<>>
    /\ waited' = 0
    /\ UNCHANGED <<dirty, rendered, call>>

\* document 'keypress': every setup has added a listener that was never removed;
\* each runs its own unMount() and then this.setup($canvas), in registration order
keypress(limit) ==
    /\ \E key \in {"r", "x"} :
        IF key = "r"
          THEN /\ 2 * Len(setups) <= limit
               /\ setups' = [j \in 1 .. Len(setups) |-> Unmounted]
                            \o [j \in 1 .. Len(setups) |-> NewSetup]
               /\ world' = NewWorld(canvas)
               /\ history' = <<>>
               /\ waited' = 0
          ELSE UNCHANGED <<setups, world, history, waited>>
    /\ UNCHANGED <<canvas, unMount, dirty, renewGraphicsContext, rendered, call>>

---------------------------------------------------------------------------

(* The page while no key is pressed: resize is the only reset *)
Next ==
    \/ \E i \in 1 .. Len(setups) : wireGeneratorTick(i, StraightDraws)
    \/ \E i \in 1 .. Len(setups) : wireQueueTick(i)
    \/ renderFn
    \/ resize(CanvasSizes, MaxSetups)

Spec == Init /\ [][Next]_vars

(* One World of short wires that may turn *)
NextTurns ==
    \/ \E i \in 1 .. Len(setups) : wireGeneratorTick(i, TurnDraws)
    \/ \E i \in 1 .. Len(setups) : wireQueueTick(i)
    \/ renderFn

SpecTurns == Init /\ [][NextTurns]_vars

(* The two timers of one World firing again and again: setInterval keeps    *)
(* calling each handler until clearInterval                                  *)
NextLive ==
    \/ \E i \in 1 .. Len(setups) : wireGeneratorTick(i, TurnDraws)
    \/ \E i \in 1 .. Len(setups) : wireQueueTick(i)

SpecLive ==
    /\ Init
    /\ [][NextLive]_vars
    /\ WF_vars(\E i \in 1 .. Len(setups) : wireGeneratorTick(i, TurnDraws))
    /\ WF_vars(\E i \in 1 .. Len(setups) : wireQueueTick(i))

(* One World in which time also passes between the ticks, not only from one *)
(* read of the clock to the next                                             *)
clockAdvance ==
    /\ \E d \in ClockSteps :
        /\ setups' = readClock(d)
        /\ waited' = waiting(d)
    /\ UNCHANGED <<canvas, world, unMount, dirty, renewGraphicsContext, rendered, history, call>>

NextClock ==
    \/ \E i \in 1 .. Len(setups) : wireGeneratorTick(i, KeyDraws)
    \/ \E i \in 1 .. Len(setups) : wireQueueTick(i)
    \/ renderFn
    \/ clockAdvance

SpecClock == Init /\ [][NextClock]_vars

(* The page with key presses, on a canvas of one cell *)
InitKeys ==
    /\ Constructed(KeyCanvasSizes)
    /\ call = NoCall

NextKeys ==
    \/ \E i \in 1 .. Len(setups) : wireGeneratorTick(i, KeyDraws)
    \/ \E i \in 1 .. Len(setups) : wireQueueTick(i)
    \/ renderFn
    \/ resize(KeyCanvasSizes, MaxKeySetups)
    \/ keypress(MaxKeySetups)

SpecKeys == InitKeys /\ [][NextKeys]_vars

---------------------------------------------------------------------------
(* One call of generateWire, for every outcome of the random source in GenDraws *)

InitGen ==
    /\ Constructed(CanvasSizes)
    /\ \E rnd \in RandomSources(world.dimensions, GenDraws) :
        call = [fn |-> "generateWire", arg |-> rnd, done |-> FALSE, ret |-> <<>>]

generateWireCall ==
    /\ call.fn = "generateWire"
    /\ ~call.done
    /\ call' = [call EXCEPT !.done = TRUE, !.ret = generateWire(world, call.arg)]
    /\ UNCHANGED <<canvas, world, setups, unMount, dirty, renewGraphicsContext, rendered, history, waited>>

SpecGen == InitGen /\ [][generateWireCall]_vars

---------------------------------------------------------------------------
(* One call of wireIntersects, for every store over a small grid and every  *)
(* wire of up to MaxProbeNodes nodes on it                                  *)

MaxProbeNodes == 2

\* the probed cells: (0,0) and its neighbours to the right and below
GridCells == {<<0, 0>>, <<1, 0>>, <<0, 1>>, <<1, 1>>}

GridNodes == {[point |-> c, direction |-> d] : c \in GridCells, d \in Directions}

ProbeWires == UNION {[1 .. n -> GridNodes] : n \in 1 .. MaxProbeNodes}

StoredPiece == [direction |-> "down", lerp |-> ONE, tipPosition |-> "false"]

InitIntersect ==
    /\ Constructed(CanvasSizes)
    /\ \E cells \in SUBSET GridCells, wire \in ProbeWires :
        call = [fn |-> "wireIntersects",
                arg |-> [world |-> [world EXCEPT !.wirePieces = [k \in cells |-> StoredPiece]],
                         wire |-> wire],
                done |-> FALSE, ret |-> FALSE]

wireIntersectsCall ==
    /\ call.fn = "wireIntersects"
    /\ ~call.done
    /\ call' = [call EXCEPT !.done = TRUE, !.ret = wireIntersects(call.arg.world, call.arg.wire)]
    /\ UNCHANGED <<canvas, world, setups, unMount, dirty, renewGraphicsContext, rendered, history, waited>>

SpecIntersect == InitIntersect /\ [][wireIntersectsCall]_vars

---------------------------------------------------------------------------
(* Claims *)

pieces == world.wirePieces

Occupied(x, y) == <<x, y>> \in DOMAIN call.arg.world.wirePieces

\* the neighbour cell the claim names for each direction
ClaimedNeighbour(node) ==
    CASE node.direction = "down" -> <<node.point[1], node.point[2] + 1>>
      [] node.direction = "down-left" -> <<node.point[1] - 1, node.point[2]>>
      [] node.direction = "down-right" -> <<node.point[1] + 1, node.point[2]>>

ClaimedHit(node) ==
    \/ Occupied(node.point[1], node.point[2])
    \/ Occupied(ClaimedNeighbour(node)[1], ClaimedNeighbour(node)[2])

DownAt(x, y) == <<[point |-> <<x, y>>, direction |-> "down"]>>

C8_Result ==
    (call.fn = "wireIntersects" /\ call.done) =>
        /\ call.ret <=> \E n \in 1 .. Len(call.arg.wire) : ClaimedHit(call.arg.wire[n])
        /\ DOMAIN call.arg.world.wirePieces = {<<0, 0>>} =>
            /\ call.arg.wire = DownAt(0, 0) => call.ret
            /\ call.arg.wire = DownAt(1, 1) => ~call.ret

\* C8: wireIntersects is true exactly when some node's own cell or its
\* direction's neighbour cell ((x,y+1) down, (x-1,y) down-left, (x+1,y)
\* down-right) is occupied; with only (0,0) occupied, down at (0,0) is rejected
\* and down at (1,1) accepted; the call leaves the World as it was.
C8_WireIntersects ==
    /\ [] C8_Result
    /\ [][call'.arg = call.arg /\ world' = world]_vars

\* a wire rejected for a neighbour cell alone
C8_Witness ==
    /\ call.fn = "wireIntersects"
    /\ call.done
    /\ call.ret
    /\ \A n \in 1 .. Len(call.arg.wire) :
        ~Occupied(call.arg.wire[n].point[1], call.arg.wire[n].point[2])

MinNodes == WIRE_BASE_LENGTH + 1

MaxNodes == WIRE_BASE_LENGTH + WIRE_LENGTH_SPREAD

\* C9: every wire generateWire returns has between 4 and 15 nodes.
C9_GeneratedLength ==
    (call.fn = "generateWire" /\ call.done) =>
        (MinNodes <= Len(call.ret) /\ Len(call.ret) <= MaxNodes)

\* a generated wire of 15 nodes, turning on the way
C9_Witness ==
    /\ call.fn = "generateWire"
    /\ call.done
    /\ Len(call.ret) = MaxNodes
    /\ call.arg.changeAt # {}

\* C10 as amended: every wire in the Reveal Queue has at least 4 and at most
\* 15 nodes.
C10_QueuedLength ==
    \A q \in 1 .. Len(world.wiresQueue) :
        /\ MinNodes <= Len(world.wiresQueue[q].wire)
        /\ Len(world.wiresQueue[q].wire) <= MaxNodes

\* C10 as claimed: every wire in the Reveal Queue has at least 4 and at most
\* 14 nodes.
C10_Original ==
    \A q \in 1 .. Len(world.wiresQueue) :
        /\ MinNodes <= Len(world.wiresQueue[q].wire)
        /\ Len(world.wiresQueue[q].wire) <= MaxNodes - 1

\* a wire of 15 nodes is being revealed
C10_Witness ==
    /\ Len(world.wiresQueue) > 0
    /\ Len(world.wiresQueue[1].wire) = MaxNodes
    /\ world.wiresQueue[1].cursor > 0

---------------------------------------------------------------------------
(* Claims about the running page *)

live(s) == s.wireGeneratorTimer \/ s.wireQueueTimer

queue == world.wiresQueue

\* the admission interval of setup i is cleared by its own tick in this step
StoppedNow(i) ==
    /\ setups[i].wireGeneratorTimer
    /\ ~setups'[i].wireGeneratorTimer
    /\ setups'[i].wireQueueTimer

FailedNow(i) ==
    /\ setups[i].wireGeneratorTimer
    /\ setups'[i].wireGeneratorTimer
    /\ setups'[i].failedTries = setups[i].failedTries + 1

C1_Step ==
    /\ \A i \in 1 .. Len(setups) :
        /\ FailedNow(i) => setups[i].failedTries <= MAX_FAILED_TRIES
        /\ StoppedNow(i) => (setups[i].failedTries = MAX_FAILED_TRIES + 1 /\ world' = world)
        /\ ~setups[i].wireGeneratorTimer => ~setups'[i].wireGeneratorTimer
    /\ (\A i \in 1 .. Len(setups) : ~setups[i].wireGeneratorTimer) =>
            Len(world'.wiresQueue) <= Len(queue)

\* C1 as amended: an admission timer whose candidates all intersect makes
\* exactly 201 consecutive failed attempts (failedTries 0 .. 200 each generate a
\* candidate) and is cleared by its next tick; once cleared it stays cleared, no
\* 202nd candidate is generated and no wire is enqueued in that World.
C1_AdmissionStops == [][C1_Step]_vars

\* C1 as claimed: the timer stops after exactly 200 consecutive failures, so a
\* 201st candidate is never generated and failedTries never passes 200.
C1_Original ==
    \A i \in 1 .. Len(setups) :
        live(setups[i]) => setups[i].failedTries <= MAX_FAILED_TRIES

\* the admission timer has been cleared by the failure budget, in a World that
\* holds a drained wire and an empty queue
C1_Witness ==
    /\ Len(queue) = 0
    /\ Len(history) > 0
    /\ \E i \in 1 .. Len(setups) :
        /\ ~setups[i].wireGeneratorTimer
        /\ setups[i].wireQueueTimer
        /\ setups[i].failedTries = MAX_FAILED_TRIES + 1

\* C2: at every moment at most one admission timer and at most one animation
\* timer are active (every timer of an earlier setup has been cancelled).
C2_OneTimerPair ==
    /\ Cardinality({i \in 1 .. Len(setups) : setups[i].wireGeneratorTimer}) <= 1
    /\ Cardinality({i \in 1 .. Len(setups) : setups[i].wireQueueTimer}) <= 1

NodePoints(wire) == {wire[n].point : n \in 1 .. Len(wire)}

Written(wire) == NodePoints(wire) \cap DOMAIN pieces # {}

\* C3: for wires A enqueued before B, no node of B is in the Occupancy Store
\* before A's cursor has reached A's length.
C3_Fifo ==
    \A a, b \in 1 .. Len(history) :
        (a < b /\ Written(history[b].wire)) =>
            history[a].cursor = Len(history[a].wire)

\* a second wire is being revealed
C3_Witness ==
    /\ Len(history) >= 2
    /\ history[2].cursor >= 1
    /\ Written(history[2].wire)

\* the lattice points of the polyline a wire draws: every node's point and the
\* end point of the final node's segment
PolylinePoints(wire) ==
    NodePoints(wire) \cup {nextPoint(wire[Len(wire)].point, wire[Len(wire)].direction)}

\* C4: the polylines of any two distinct admitted wires share no lattice point.
C4_NonOverlapping ==
    \A a, b \in 1 .. Len(history) :
        a # b => PolylinePoints(history[a].wire) \cap PolylinePoints(history[b].wire) = {}

\* the points of the nodes some wire's cursor has advanced past
PastKeys ==
    UNION {{history[a].wire[n].point : n \in 1 .. history[a].cursor} : a \in 1 .. Len(history)}

\* the point of the node at the cursor of the head of the queue
GrowingKeys ==
    IF Len(queue) > 0 /\ queue[1].cursor < Len(queue[1].wire)
        THEN {queue[1].wire[queue[1].cursor + 1].point}
        ELSE {}

\* C5 as claimed: a key is in the store if and only if some wire's cursor has
\* advanced past its node.
C5_Original == DOMAIN pieces = PastKeys

\* C5 as amended: every node a cursor has advanced past has its key in the
\* store, and every key in the store is such a node or the node at the cursor
\* of the head wire, holding that node's in-progress snapshot (lerp <= 1, tip
\* 'begin-end' at cursor 0 and 'end' after).
C5_StoreKeys ==
    /\ PastKeys \subseteq DOMAIN pieces
    /\ DOMAIN pieces \subseteq PastKeys \cup GrowingKeys
    /\ \A k \in DOMAIN pieces \ PastKeys :
        /\ pieces[k].lerp <= ONE
        /\ pieces[k].tipPosition = (IF queue[1].cursor = 0 THEN "begin-end" ELSE "end")
        /\ pieces[k].direction = queue[1].wire[queue[1].cursor + 1].direction

\* the store holds finalized nodes and the snapshot of the growing one
C5_Witness ==
    /\ PastKeys # {}
    /\ DOMAIN pieces \ PastKeys # {}

ClaimedTip(n, length) ==
    IF n = 1 THEN "begin" ELSE IF n = length THEN "end" ELSE "false"

Revealed(h) == h.cursor = Len(h.wire)

\* C6: for every fully revealed wire of at least 2 nodes the store holds, at
\* each node, lerp = 1 and tipPosition 'begin' at the first node, 'end' at the
\* last and none between.
C6_FinalPieces ==
    \A a \in 1 .. Len(history) :
        (Revealed(history[a]) /\ Len(history[a].wire) >= 2) =>
            \A n \in 1 .. Len(history[a].wire) :
                LET k == history[a].wire[n].point
                IN  /\ k \in DOMAIN pieces
                    /\ pieces[k].lerp = ONE
                    /\ pieces[k].tipPosition = ClaimedTip(n, Len(history[a].wire))

\* a revealed wire, with a later wire growing
C6_Witness ==
    /\ Len(history) >= 2
    /\ Revealed(history[1])
    /\ history[2].cursor >= 2
    /\ DOMAIN pieces \ PastKeys # {}

\* the head wire and its cursor are the same before and after the step, and
\* the segment at the cursor has a piece in both states
SameSegment ==
    /\ Len(queue) > 0
    /\ Len(world'.wiresQueue) > 0
    /\ world'.wiresQueue[1] = queue[1]
    /\ history' = history
    /\ GrowingKeys # {}
    /\ GrowingKeys \subseteq DOMAIN pieces
    /\ GrowingKeys \subseteq DOMAIN world'.wirePieces

C7_Monotone ==
    SameSegment => \A k \in GrowingKeys : world'.wirePieces[k].lerp >= pieces[k].lerp

\* a step writes lerp = 1 at key k
WritesOne(k) ==
    /\ k \in DOMAIN world'.wirePieces
    /\ world'.wirePieces[k].lerp = ONE
    /\ (k \notin DOMAIN pieces \/ pieces[k] # world'.wirePieces[k])

C7_OneAdvances ==
    (Len(queue) > 0 /\ history' = history /\ Len(world'.wiresQueue) > 0) =>
        \A k \in GrowingKeys : WritesOne(k) => world'.wiresQueue[1].cursor = queue[1].cursor + 1

\* C7: the lerp values written for the growing segment never decrease, and
\* lerp = 1 is written only by the tick that advances the cursor.
C7_RevealMonotone == [][C7_Monotone /\ C7_OneAdvances]_vars

\* the two halves of C7, each on its own
C7_MonotoneOnly == [][C7_Monotone]_vars

C7_OneAdvancesOnly == [][C7_OneAdvances]_vars

---------------------------------------------------------------------------
(* Claims about the generated wire *)

generated == call.fn = "generateWire" /\ call.done

ClaimedOffset(direction) ==
    CASE direction = "down" -> <<0, 1>>
      [] direction = "down-left" -> <<-1, 1>>
      [] direction = "down-right" -> <<1, 1>>

\* C11: in every generated wire the point of node i+1 is the point of node i
\* moved by the offset of the direction stored in node i: down (0,+1),
\* down-left (-1,+1), down-right (+1,+1).
C11_StepsFollowDirection ==
    generated =>
        \A n \in 1 .. (Len(call.ret) - 1) :
            LET from == call.ret[n]
                off == ClaimedOffset(from.direction)
            IN  call.ret[n + 1].point = <<from.point[1] + off[1], from.point[2] + off[2]>>

\* a generated wire that turns at a node it then leaves
C11_Witness ==
    /\ generated
    /\ \E n \in 1 .. (Len(call.ret) - 2) :
        call.ret[n].direction # call.ret[n + 1].direction

\* C14: whenever two consecutive nodes of a generated wire differ in
\* direction, one of the two directions is down: never down-left next to
\* down-right.
C14_NoDirectSwitch ==
    generated =>
        \A n \in 1 .. (Len(call.ret) - 1) :
            call.ret[n].direction # call.ret[n + 1].direction =>
                (call.ret[n].direction = "down" \/ call.ret[n + 1].direction = "down")

\* a generated wire that turns at two nodes in a row, leaving a diagonal
C14_Witness ==
    /\ generated
    /\ \E n \in 1 .. (Len(call.ret) - 2) :
        /\ call.ret[n].direction # "down"
        /\ call.ret[n + 1].direction = "down"
        /\ call.ret[n + 2].direction # "down"

---------------------------------------------------------------------------
(* Claims about rendering *)

\* the step writes a WirePiece into the store
StoreWrite ==
    \E k \in DOMAIN world'.wirePieces :
        k \notin DOMAIN pieces \/ world'.wirePieces[k] # pieces[k]

\* the step is a render frame that found one of the two flags set
FlaggedFrame == (dirty /\ ~dirty') \/ (renewGraphicsContext /\ ~renewGraphicsContext')

C12_Step ==
    /\ StoreWrite => dirty'
    /\ (rendered' /\ ~rendered) => (dirty \/ renewGraphicsContext)
    /\ FlaggedFrame => (rendered' /\ ~dirty' /\ ~renewGraphicsContext')

\* C12: a tick that writes a WirePiece sets dirty in the same tick; a render
\* frame redraws only when dirty or renewGraphicsContext is set and clears
\* both; so dirty stays set from a store write to the next frame, and that
\* frame redraws.
C12_DirtyRedraw == [][C12_Step]_vars

\* a frame has redrawn the store after a write, with no resize before it
C12_Witness ==
    /\ Len(setups) = 1
    /\ DOMAIN pieces # {}
    /\ rendered
    /\ ~dirty

---------------------------------------------------------------------------
(* Claims about the timing of the reveal *)

\* the first node of the wire pushed last has been finalized
FirstNodeFinal == Len(history) > 0 /\ history[Len(history)].cursor >= 1

\* C13: the first node of a wire is never finalized before a full per-segment
\* duration (1000 / WIRE_LERP_SPEED = 20 ms) has passed since the wire was
\* pushed onto the queue (its baseline is not earlier than the push).
C13_FreshBaseline ==
    (FirstNodeFinal /\ Len(queue) > 0) => waited >= LERP_DURATION

\* the piece was written by the growing branch: it carries the node's point
InProgress(piece) == "point" \in DOMAIN piece

\* C15: every in-progress snapshot in the store has 0 <= lerp < 1; lerp = 1
\* is written only by the finalizing branch.
C15_LerpBelowOne ==
    \A k \in DOMAIN pieces :
        InProgress(pieces[k]) => (0 <= pieces[k].lerp /\ pieces[k].lerp < ONE)

---------------------------------------------------------------------------
(* Claims about the store and the queue *)

\* the step is not a reset: no setup is added
SameWorld == Len(setups') = Len(setups)

\* the piece was written by the finalizing branch
Final(piece) == ~InProgress(piece) /\ piece.lerp = ONE

C16_Step ==
    SameWorld =>
        /\ DOMAIN pieces \subseteq DOMAIN world'.wirePieces
        /\ \A k \in DOMAIN pieces :
            Final(pieces[k]) => world'.wirePieces[k] = pieces[k]

\* C16: within one World no key leaves the store and a finalized piece is
\* never overwritten or changed by a later admission or animation tick.
C16_StorePersists == [][C16_Step]_vars

\* two wires admitted one after the other are both revealed and drained
C16_Witness ==
    /\ Len(history) >= 2
    /\ \A a \in 1 .. Len(history) : Revealed(history[a])
    /\ Len(queue) = 0
    /\ \A a \in 1 .. Len(history) :
        \A n \in 1 .. Len(history[a].wire) : Final(pieces[history[a].wire[n].point])

\* C17: the Reveal Queue holds at most one entry and its cursor is between 0
\* and the length of its wire, for every interleaving of admission ticks,
\* animation ticks and resets (a wire is pushed only onto an empty queue).
C17_QueueAtMostOne ==
    /\ Len(queue) <= 1
    /\ \A q \in 1 .. Len(queue) :
        0 <= queue[q].cursor /\ queue[q].cursor <= Len(queue[q].wire)

\* after resets, with more than one animation timer alive, the queued wire is
\* revealed and waits to be drained
C17_Witness ==
    /\ Len(setups) >= 2
    /\ Cardinality({i \in 1 .. Len(setups) : setups[i].wireQueueTimer}) >= 2
    /\ Len(queue) = 1
    /\ queue[1].cursor = Len(queue[1].wire)

\* C18: the store never holds a down-right piece at (x,y) together with a
\* down-left piece at (x+1,y): no two stored diagonal segments cross.
C18_NoCrossing ==
    \A k \in DOMAIN pieces :
        pieces[k].direction = "down-right" =>
            ~(<<k[1] + 1, k[2]>> \in DOMAIN pieces
                /\ pieces[<<k[1] + 1, k[2]>>].direction = "down-left")

\* a down-left wire and a down-right wire are stored side by side, pointing
\* away from each other
C18_Witness ==
    \E k \in DOMAIN pieces :
        /\ pieces[k].direction = "down-left"
        /\ <<k[1] + 1, k[2]>> \in DOMAIN pieces
        /\ pieces[<<k[1] + 1, k[2]>>].direction = "down-right"

---------------------------------------------------------------------------
(* Claims about progress, in a World that is not reset *)

AdmissionStopped == \A i \in 1 .. Len(setups) : ~setups[i].wireGeneratorTimer

\* the cells generateWire can start a wire in
StartCells ==
    {<<x, y>> : x \in RandomXs(world.dimensions[1]), y \in RandomYs(world.dimensions[2])}

\* C19: with admission and animation ticks firing again and again, admission
\* eventually stops and stays stopped, whatever the random choices are.
C19_AdmissionTerminates == <>[]AdmissionStopped

\* admission has stopped with every start cell occupied
C19_Witness ==
    /\ AdmissionStopped
    /\ StartCells \subseteq DOMAIN pieces

AllRevealed ==
    \A a \in 1 .. Len(history) :
        /\ Revealed(history[a])
        /\ \A n \in 1 .. Len(history[a].wire) :
            /\ history[a].wire[n].point \in DOMAIN pieces
            /\ Final(pieces[history[a].wire[n].point])

\* C20: every wire pushed onto the queue is eventually wholly revealed (cursor
\* at its length, every node finalized with lerp = 1) and removed from the
\* queue, also after admission has stopped.
C20_EveryWireRevealed == (Len(queue) > 0) ~> (Len(queue) = 0 /\ AllRevealed)

\* admission has stopped and the wire pushed last is revealed and drained
C20_Witness ==
    /\ AdmissionStopped
    /\ Len(history) >= 1
    /\ Len(queue) = 0
    /\ AllRevealed

====
